---- MODULE Spec2Model ----
(***************************************************************************)
(* Release-body normalisation of src/generate_release_notes.py.            *)
(*                                                                         *)
(* A text is a sequence of one-character strings.  The four body           *)
(* transformations of main() are operators computed the way the Python     *)
(* code computes them (str.splitlines, str.strip, str.lower, re.sub with   *)
(* its greedy token and its look-arounds); the state machine is the body   *)
(* of main()'s per-release loop, one action per statement.                 *)
(***************************************************************************)
EXTENDS Naturals, Sequences, FiniteSets

VARIABLES release, body, pc, f

vars == <<release, body, pc, f>>

(***************************************************************************)
(* Bounds of the model.                                                    *)
(***************************************************************************)
\* a release body is a concatenation of at most MaxFrags fragments
MaxFrags == 5

(***************************************************************************)
(* Characters.                                                             *)
(***************************************************************************)
LowerLetters == <<"a", "b", "c", "d", "e", "f", "g", "h", "i", "j", "k", "l", "m",
                  "n", "o", "p", "q", "r", "s", "t", "u", "v", "w", "x", "y", "z">>

UpperLetters == <<"A", "B", "C", "D", "E", "F", "G", "H", "I", "J", "K", "L", "M",
                  "N", "O", "P", "Q", "R", "S", "T", "U", "V", "W", "X", "Y", "Z">>

Digits == {"0", "1", "2", "3", "4", "5", "6", "7", "8", "9"}

Range(s) == {s[i] : i \in 1..Len(s)}

Max(S) == CHOOSE x \in S : \A y \in S : y <= x

Min(S) == CHOOSE x \in S : \A y \in S : x <= y

\* the regex class \w
WordChars == Range(LowerLetters) \cup Range(UpperLetters) \cup Digits \cup {"_"}

\* the regex class of a token: \w, hyphen and the two square brackets
TokenChars == WordChars \cup {"-", "[", "]"}

\* the characters str.strip() removes
WhiteSpace == {" ", "\t", "\n", "\r", "\f"}

\* the characters str.splitlines() breaks a line at
LineBreaks == {"\n", "\r", "\f"}

\* the backtick character (U+0060), which a TLA+ string cannot hold: every
\* character is a string, and this one is spelled out
Backtick == "backtick"

\* str.lower() of one character
LowerChar(c) ==
    IF c \in Range(UpperLetters)
    THEN LowerLetters[CHOOSE i \in 1..Len(UpperLetters) : UpperLetters[i] = c]
    ELSE c

(***************************************************************************)
(* Python's str methods.                                                   *)
(***************************************************************************)
Lower(s) == [i \in 1..Len(s) |-> LowerChar(s[i])]

\* s[i:] with i counted from 1
From(s, i) == IF i > Len(s) THEN <<>> ELSE SubSeq(s, i, Len(s))

\* s.startswith(p, i-1)
StartsAt(s, i, p) ==
    /\ i + Len(p) - 1 <= Len(s)
    /\ \A k \in 1..Len(p) : s[i + k - 1] = p[k]

\* p in s
Contains(s, p) == \E i \in 1..(Len(s) + 1) : StartsAt(s, i, p)

\* s.lstrip(): s from its first character that is not whitespace
LStrip(s) ==
    LET keep == {i \in 1..Len(s) : s[i] \notin WhiteSpace}
    IN  IF keep = {} THEN <<>> ELSE SubSeq(s, Min(keep), Len(s))

\* s.rstrip(): s up to its last character that is not whitespace
RStrip(s) ==
    LET keep == {i \in 1..Len(s) : s[i] \notin WhiteSpace}
    IN  IF keep = {} THEN <<>> ELSE SubSeq(s, 1, Max(keep))

\* s.strip()
Strip(s) == RStrip(LStrip(s))

\* s.splitlines(): a break ends the current line, "\r\n" is one break, and a
\* text that ends in a break has no empty last line
RECURSIVE SplitFrom(_, _)
SplitFrom(s, i) ==
    LET breaks == {j \in i..Len(s) : s[j] \in LineBreaks}
    IN  IF breaks = {}
        THEN IF i > Len(s) THEN <<>> ELSE <<From(s, i)>>
        ELSE LET j == Min(breaks)
                 n == IF s[j] = "\r" /\ j < Len(s) /\ s[j + 1] = "\n"
                      THEN j + 2 ELSE j + 1
             IN  <<SubSeq(s, i, j - 1)>> \o SplitFrom(s, n)

SplitLines(s) == SplitFrom(s, 1)

\* "\n".join(lines)
RECURSIVE Join(_)
Join(lines) ==
    IF lines = <<>> THEN <<>>
    ELSE IF Len(lines) = 1 THEN lines[1]
    ELSE lines[1] \o <<"\n">> \o Join(Tail(lines))

(***************************************************************************)
(* Literals of the code.                                                   *)
(***************************************************************************)
FullChangelog == <<"f", "u", "l", "l", " ", "c", "h", "a", "n", "g", "e", "l", "o", "g">>

\* "https://github.com/" of the replacement string
GithubUrl == <<"h", "t", "t", "p", "s", ":", "/", "/", "g", "i", "t", "h", "u", "b",
               ".", "c", "o", "m", "/">>

Bold == <<"*", "*">>

(***************************************************************************)
(* clean_release_body                                                      *)
(***************************************************************************)
\* the comparison made without lower()
KeepLine_CaseSensitive(line) == ~Contains(line, FullChangelog)

\* separator lines dropped as well
KeepLine_DropSeparators(line) ==
    /\ ~Contains(Lower(line), FullChangelog)
    /\ Strip(line) \notin {<<"-", "-", "-">>, <<"*", "*", "*", "*">>}

\* lines that start with "by @" dropped as well
KeepLine_DropByLines(line) ==
    /\ ~Contains(Lower(line), FullChangelog)
    /\ ~StartsAt(Lower(line), 1, <<"b", "y", " ", "@">>)

\* the condition of the list comprehension
KeepLine(line) == ~Contains(Lower(line), FullChangelog)

\* [line for line in lines if ...]
RECURSIVE KeptLines(_)
KeptLines(lines) ==
    IF lines = <<>> THEN <<>>
    ELSE (IF KeepLine(Head(lines)) THEN <<Head(lines)>> ELSE <<>>)
             \o KeptLines(Tail(lines))

clean_release_body(b) ==
    LET lines == SplitLines(b)
        cleaned_lines == KeptLines(lines)
    IN  Strip(Join(cleaned_lines))

(***************************************************************************)
(* convert_headers_to_bold                                                 *)
(***************************************************************************)
\* only a # followed by a space starts a heading
IsHeader_NeedsSpace(line) == StartsAt(line, 1, <<"#", " ">>)

\* line.startswith("#")
IsHeader(line) == line # <<>> /\ line[1] = "#"

\* len(line) - len(line.lstrip("#"))
HeaderLevel(line) ==
    Min({i \in 1..(Len(line) + 1) : i > Len(line) \/ line[i] # "#"}) - 1

\* a heading without content gives an empty line
BoldLine_DropEmpty(line) ==
    IF line # <<>> /\ line[1] = "#"
    THEN LET content == Strip(From(line, HeaderLevel(line) + 1))
         IN  IF content = <<>> THEN <<>> ELSE Bold \o content \o Bold
    ELSE line

\* one iteration of the loop over the lines
BoldLine(line) ==
    IF IsHeader(line)
    THEN LET header_level == HeaderLevel(line)
             content == Strip(From(line, header_level + 1))
         IN  Bold \o content \o Bold
    ELSE line

\* the else forgotten: a heading is appended as bold text and as it was
RECURSIVE BoldAndRaw(_)
BoldAndRaw(lines) ==
    IF lines = <<>> THEN <<>>
    ELSE (IF IsHeader(Head(lines))
          THEN <<BoldLine(Head(lines)), Head(lines)>>
          ELSE <<Head(lines)>>)
             \o BoldAndRaw(Tail(lines))

convert_headers_to_bold_NoElse(text) == Join(BoldAndRaw(SplitLines(text)))

convert_headers_to_bold(text) ==
    LET lines == SplitLines(text)
    IN  Join([i \in 1..Len(lines) |-> BoldLine(lines[i])])

(***************************************************************************)
(* convert_github_usernames_to_links                                       *)
(***************************************************************************)
\* the length of the longest run of token characters that starts at s[i]
TokenRun(s, i) ==
    Min({j \in i..(Len(s) + 1) : j > Len(s) \/ s[j] \notin TokenChars}) - i

\* the lookbehind for the backtick forgotten
NotAlreadyLinked_OnlyBracket(s, i) == i = 1 \/ s[i - 1] # "["

\* the two negative lookbehinds: the character before s[i] is neither an
\* opening bracket nor a backtick
NotAlreadyLinked(s, i) == i = 1 \/ s[i - 1] \notin {"[", Backtick}

\* the negative lookahead for a closing bracket at position i
NotBeforeBracket(s, i) == i > Len(s) \/ s[i] # "]"

\* the length of group 1 when the pattern matches at s[i], 0 when it does not:
\* the greedy + tries the longest token first and backs off one character at
\* a time until the lookahead holds
UsernameMatch(s, i) ==
    IF s[i] = "@" /\ NotAlreadyLinked(s, i)
    THEN LET n  == TokenRun(s, i + 1)
             ok == {k \in 1..n : NotBeforeBracket(s, i + k + 1)}
         IN  IF ok = {} THEN 0 ELSE Max(ok)
    ELSE 0

\* the replacement: the link whose text is @name and whose target is the url
\* followed by name
UsernameLink(name) ==
    <<"[", "@">> \o name \o <<"]", "(">> \o GithubUrl \o name \o <<")">>

\* re.sub from position i on: the leftmost match is replaced, the text before
\* it is copied, and the search goes on behind the match
RECURSIVE SubUsernames(_, _)
SubUsernames(s, i) ==
    LET matches == {j \in i..Len(s) : UsernameMatch(s, j) > 0}
    IN  IF matches = {} THEN From(s, i)
        ELSE LET j == Min(matches)
                 k == UsernameMatch(s, j)
             IN  SubSeq(s, i, j - 1)
                     \o UsernameLink(SubSeq(s, j + 1, j + k))
                     \o SubUsernames(s, j + k + 1)

convert_github_usernames_to_links(text) == SubUsernames(text, 1)

(***************************************************************************)
(* add_backticks_to_usernames_in_links                                     *)
(***************************************************************************)
\* "https://github.com/" as a pattern: its "." matches any character but "\n"
UrlPatternAt(s, i) ==
    /\ i + Len(GithubUrl) - 1 <= Len(s)
    /\ \A k \in 1..Len(GithubUrl) :
          IF GithubUrl[k] = "." THEN s[i + k - 1] # "\n"
          ELSE s[i + k - 1] = GithubUrl[k]

\* group 3 at position p: closing bracket, opening parenthesis, the url, the
\* back-reference to group 2 (name), closing parenthesis
LinkTargetAt(s, p, name) ==
    /\ StartsAt(s, p, <<"]", "(">>)
    /\ UrlPatternAt(s, p + 2)
    /\ StartsAt(s, p + 2 + Len(GithubUrl), name)
    /\ StartsAt(s, p + 2 + Len(GithubUrl) + Len(name), <<")">>)

\* the length of group 3 for a name of length k
LinkTargetLen(k) == 2 + Len(GithubUrl) + k + 1

\* the negative lookahead for a backtick at position i
NotBeforeBacktick(s, i) == i > Len(s) \/ s[i] # Backtick

\* the length of group 2 when the pattern matches at s[i], 0 when it does not
BacktickMatch(s, i) ==
    IF StartsAt(s, i, <<"[", "@">>)
    THEN LET n  == TokenRun(s, i + 2)
             ok == {k \in 1..n :
                      /\ LinkTargetAt(s, i + 2 + k, SubSeq(s, i + 2, i + 1 + k))
                      /\ NotBeforeBacktick(s, i + 2 + k + LinkTargetLen(k))}
         IN  IF ok = {} THEN 0 ELSE Max(ok)
    ELSE 0

\* the replacement: group 1, then group 2 with its @ between backticks, then
\* group 3 as it was matched
BacktickLink(s, i, k) ==
    <<"[", Backtick, "@">> \o SubSeq(s, i + 2, i + 1 + k) \o <<Backtick>>
        \o SubSeq(s, i + 2 + k, i + 1 + k + LinkTargetLen(k))

RECURSIVE SubBackticks(_, _)
SubBackticks(s, i) ==
    LET matches == {j \in i..Len(s) : BacktickMatch(s, j) > 0}
    IN  IF matches = {} THEN From(s, i)
        ELSE LET j == Min(matches)
                 k == BacktickMatch(s, j)
             IN  SubSeq(s, i, j - 1)
                     \o BacktickLink(s, j, k)
                     \o SubBackticks(s, j + 2 + k + LinkTargetLen(k))

add_backticks_to_usernames_in_links(text) == SubBackticks(text, 1)

(***************************************************************************)
(* main(): the body of the loop over org_releases, for one release.        *)
(* release is the "body" field of the record (None or a string), body the  *)
(* local variable, f what the iteration has written to the file.           *)
(***************************************************************************)
None == [isNone |-> TRUE, str |-> <<>>]

Str(s) == [isNone |-> FALSE, str |-> s]

\* Python's truth value of None or a string
Truthy(v) == ~v.isNone /\ v.str # <<>>

\* release["body"] without the or
BodyOrEmpty_NoDefault(v) == v

\* release["body"] or ""
BodyOrEmpty(v) == IF Truthy(v) THEN v ELSE Str(<<>>)

\* all concatenations of at most n fragments of F
RECURSIVE Texts(_, _)
Texts(F, n) ==
    IF n = 0 THEN {<<>>}
    ELSE LET T == Texts(F, n - 1) IN T \cup {t \o x : t \in T, x \in F}

\* the records the API returns: a null body or a string
Releases(F) == {None} \cup {Str(t) : t \in Texts(F, MaxFrags)}

InitWith(F) ==
    /\ release \in Releases(F)
    /\ body = None
    /\ pc = "or_empty"
    /\ f = <<>>

\* a str method or re.sub on None raises
OrEmpty ==
    /\ pc = "or_empty"
    /\ body' = BodyOrEmpty(release)
    /\ pc' = "clean"
    /\ UNCHANGED <<release, f>>

CleanBody ==
    /\ pc = "clean"
    /\ IF body.isNone
       THEN pc' = "error" /\ UNCHANGED body
       ELSE pc' = "links" /\ body' = Str(clean_release_body(body.str))
    /\ UNCHANGED <<release, f>>

LinkUsernames ==
    /\ pc = "links"
    /\ IF body.isNone
       THEN pc' = "error" /\ UNCHANGED body
       ELSE pc' = "bold" /\ body' = Str(convert_github_usernames_to_links(body.str))
    /\ UNCHANGED <<release, f>>

BoldHeaders ==
    /\ pc = "bold"
    /\ IF body.isNone
       THEN pc' = "error" /\ UNCHANGED body
       ELSE pc' = "backticks" /\ body' = Str(convert_headers_to_bold(body.str))
    /\ UNCHANGED <<release, f>>

AddBackticks ==
    /\ pc = "backticks"
    /\ IF body.isNone
       THEN pc' = "error" /\ UNCHANGED body
       ELSE pc' = "write" /\ body' = Str(add_backticks_to_usernames_in_links(body.str))
    /\ UNCHANGED <<release, f>>

\* what f.write is given: the title line, the link line, the body when it is
\* not empty, the rule
Written(v) ==
    <<[kind |-> "title", text |-> <<>>], [kind |-> "url", text |-> <<>>]>>
        \o (IF Truthy(v)
            THEN <<[kind |-> "body", text |-> v.str \o <<"\n", "\n">>]>>
            ELSE <<>>)
        \o <<[kind |-> "rule", text |-> <<"-", "-", "-", "\n", "\n">>]>>

WriteRelease ==
    /\ pc = "write"
    /\ f' = f \o Written(body)
    /\ pc' = "done"
    /\ UNCHANGED <<release, body>>

Next ==
    \/ OrEmpty
    \/ CleanBody
    \/ LinkUsernames
    \/ BoldHeaders
    \/ AddBackticks
    \/ WriteRelease

\* the whole pipeline of main() on a string
clean(x) ==
    add_backticks_to_usernames_in_links(
        convert_headers_to_bold(
            convert_github_usernames_to_links(
                clean_release_body(x))))

(***************************************************************************)
(* Release bodies the specifications draw from.                            *)
(***************************************************************************)
\* mentions, links and escapes
MentionFrags ==
    {<<"@">>, <<"a">>, <<"[">>, <<"]">>, <<Backtick>>, <<" ">>,
     <<"]", "(">> \o GithubUrl \o <<"a", ")">>}

Init == InitWith(MentionFrags)

Spec == Init /\ [][Next]_vars

(***************************************************************************)
(* Claims about mentions (specification Spec).                             *)
(***************************************************************************)
\* what clean_release_body hands to the mention linker for this release
Cleaned == clean_release_body(BodyOrEmpty(release).str)

\* the form a linked mention is to have: the link whose text is the
\* backticked @name and whose target is the url followed by name
LinkedMention(name) ==
    <<"[", Backtick, "@">> \o name \o <<Backtick, "]", "(">>
        \o GithubUrl \o name \o <<")">>

\* a mention starts at t[i]: an @ followed by a token, not preceded by an
\* opening bracket or a backtick
BareMentionAt(t, i) ==
    /\ t[i] = "@"
    /\ i = 1 \/ t[i - 1] \notin {"[", Backtick}
    /\ i < Len(t) /\ t[i + 1] \in TokenChars

\* its token: the maximal run of token characters behind the @
MentionToken(t, i) ==
    SubSeq(t, i + 1,
           Max({j \in i..Len(t) : \A k \in (i + 1)..j : t[k] \in TokenChars}))

\* every @ of t is preceded by an opening bracket or a backtick
AllMentionsGuarded(t) ==
    \A i \in 1..Len(t) : t[i] = "@" => (i > 1 /\ t[i - 1] \in {"[", Backtick})

\* t without its backticks
RECURSIVE WithoutBackticks(_)
WithoutBackticks(lines) ==
    IF lines = <<>> THEN <<>>
    ELSE (IF Head(lines) = Backtick THEN <<>> ELSE <<Head(lines)>>)
             \o WithoutBackticks(Tail(lines))

\* C1: cleaning is idempotent: cleaning the cleaned body again gives the same
\* text.
C1_Idempotent ==
    pc = "done" => clean(body.str) = body.str

\* C2: every bare mention @token of the body has come out of the mention
\* linker (both of its calls) as the backticked link to the same token.
C2_EveryMentionLinked ==
    pc = "write" =>
        \A i \in 1..Len(Cleaned) :
            BareMentionAt(Cleaned, i) =>
                Contains(body.str, LinkedMention(MentionToken(Cleaned, i)))

\* C3 as stated: a body whose mentions are all already linked or escaped
\* comes out of the mention linker unchanged.
C3_GuardedUnchangedByLinker ==
    (pc = "write" /\ AllMentionsGuarded(Cleaned)) =>
        body.str = convert_headers_to_bold(Cleaned)

\* C3 as amended: a body whose mentions are all already linked or escaped is
\* left unchanged by convert_github_usernames_to_links (no second link), and
\* what add_backticks_to_usernames_in_links then changes is only backticks
\* it inserts.
C3_GuardedNotRelinked ==
    /\ (pc = "bold" /\ AllMentionsGuarded(Cleaned)) => body.str = Cleaned
    /\ (pc = "write" /\ AllMentionsGuarded(Cleaned)) =>
           WithoutBackticks(body.str)
               = WithoutBackticks(convert_headers_to_bold(Cleaned))

\* the already linked mention [@a](https://github.com/a) has passed the linker
\* and has been given its backticks
C3_Witness ==
    /\ pc = "write"
    /\ release = Str(<<"[", "@", "a", "]", "(">> \o GithubUrl \o <<"a", ")">>)
    /\ body.str = LinkedMention(<<"a">>)

\* C9: a release whose body is null or empty is cleaned to the empty string
\* without an error: None never reaches a string operation, every stage
\* yields the empty string, and no body is written to the file.
C9_AbsentBodyIsEmpty ==
    /\ pc # "error"
    /\ pc # "or_empty" => ~body.isNone
    /\ (~Truthy(release) /\ pc # "or_empty") => body = Str(<<>>)
    /\ (~Truthy(release) /\ pc = "done") =>
           \A i \in 1..Len(f) : f[i].kind # "body"

\* the release with a null body has been written, without a body
C9_Witness ==
    /\ release = None
    /\ pc = "done"
    /\ body = Str(<<>>)
    /\ Len(f) = 3

(***************************************************************************)
(* Claims about lines and headings (specification SpecLines).              *)
(***************************************************************************)
\* headings, mentions, blank lines and a changelog line
LineFrags ==
    {<<"#">>, <<"a">>, <<"\n">>, <<"\r">>, <<" ">>, <<"@">>,
     <<"F", "u", "l", "l", " ", "C", "h", "a", "n", "g", "e", "l", "o", "g">>}

InitLines == InitWith(LineFrags)

SpecLines == InitLines /\ [][Next]_vars

\* t[i] is the first character of a line of t
AtLineStart(t, i) == i = 1 \/ t[i - 1] \in LineBreaks

\* the line is a bold heading: what is left of it without outer whitespace is
\* wrapped in two pairs of asterisks
IsBoldHeading(line) ==
    LET l == Strip(line)
    IN  /\ Len(l) >= 4
        /\ StartsAt(l, 1, Bold)
        /\ StartsAt(l, Len(l) - 1, Bold)

IsBlank(line) == Strip(line) = <<>>

\* what the three later stages make of one line of the cleaned body
LineImage(line) ==
    add_backticks_to_usernames_in_links(
        BoldLine(convert_github_usernames_to_links(line)))

\* the lines a are, in their order and up to outer whitespace, among the
\* lines b: each line of a is matched by a later line of b than the one before
RECURSIVE Embeds(_, _)
Embeds(a, b) ==
    IF a = <<>> THEN TRUE
    ELSE IF b = <<>> THEN FALSE
    ELSE IF Head(a) \in {Head(b), LStrip(Head(b)), RStrip(Head(b)), Strip(Head(b))}
         THEN Embeds(Tail(a), Tail(b))
         ELSE Embeds(a, Tail(b))

\* C4: no line of the cleaned body begins with #, in the stage that made the
\* headings bold and in every later one, the written file included.
C4_NoLeadingHash ==
    /\ pc \in {"backticks", "write", "done"} =>
           \A i \in 1..Len(body.str) :
               AtLineStart(body.str, i) => body.str[i] # "#"
    /\ \A n \in 1..Len(f) :
           f[n].kind = "body" =>
               \A i \in 1..Len(f[n].text) :
                   AtLineStart(f[n].text, i) => f[n].text[i] # "#"

\* a body with a heading on its second line has been cleaned and written
C4_Witness ==
    /\ pc = "done"
    /\ release = Str(<<"a", "\n", "#", "a">>)
    /\ body = Str(<<"a", "\n", "*", "*", "a", "*", "*">>)
    /\ Len(f) = 4

\* C7 as stated: in the cleaned body every bold heading is followed by a
\* line of content (not blank, not a bold heading) before the next bold
\* heading or the end.
C7_NoEmptySection ==
    pc = "done" =>
        LET out == SplitLines(body.str)
        IN  \A i \in 1..Len(out) :
                IsBoldHeading(out[i]) =>
                    \E j \in (i + 1)..Len(out) :
                        /\ ~IsBlank(out[j]) /\ ~IsBoldHeading(out[j])
                        /\ \A k \in (i + 1)..(j - 1) : ~IsBoldHeading(out[k])

\* C7 as amended: no heading is pruned. Every heading line of the cleaned
\* body is a bold heading line of the output, at the same place, whether or
\* not content follows it.
C7_HeadingsKept ==
    pc = "done" =>
        LET cl  == SplitLines(Cleaned)
            out == SplitLines(body.str)
        IN  /\ Len(out) = Len(cl)
            /\ \A i \in 1..Len(cl) : IsHeader(cl[i]) => IsBoldHeading(out[i])

\* a body of two headings and a blank line, no content, keeps both headings
C7_Witness ==
    /\ pc = "done"
    /\ release = Str(<<"#", "\n", "\n", "#">>)
    /\ body = Str((Bold \o Bold) \o <<"\n", "\n">> \o (Bold \o Bold))

Rule == <<"-", "-", "-">>

Stars == <<"*", "*", "*", "*">>

NewContributors ==
    <<"N", "e", "w", " ", "C", "o", "n", "t", "r", "i", "b", "u", "t", "o", "r", "s">>

\* separators, an empty heading and content
NoiseFrags == {Rule, Stars, <<"#">>, <<"\n">>, <<" ">>, <<"a">>}

InitNoise == InitWith(NoiseFrags)

SpecNoise == InitNoise /\ [][Next]_vars

\* a section title, a changelog line and content
SectionFrags ==
    {NewContributors, <<"\n">>, <<" ">>, <<"a">>, <<"\r">>,
     <<"F", "u", "l", "l", " ", "C", "h", "a", "n", "g", "e", "l", "o", "g">>}

InitSections == InitWith(SectionFrags)

SpecSections == InitSections /\ [][Next]_vars

\* the number of lines that are, without outer whitespace, the text sep
RECURSIVE CountLines(_, _)
CountLines(lines, sep) ==
    IF lines = <<>> THEN 0
    ELSE (IF Strip(Head(lines)) = sep THEN 1 ELSE 0) + CountLines(Tail(lines), sep)

\* the line names the changelog, in any case of the letters
NamesChangelog(line) == Contains(Lower(line), FullChangelog)

\* the lines of the text joined by "\n": every line break made a "\n",
\* "\r\n" being one break
NormalisedBreaks(t) == Join(SplitLines(t))

\* C5 as stated: no line of the cleaned output is, without outer whitespace,
\* --- or ****.
C5_NoSeparatorLine ==
    pc = "done" =>
        \A line \in Range(SplitLines(body.str)) : Strip(line) \notin {Rule, Stars}

\* C5 as amended: separator lines are not filtered. The cleaned output has
\* as many --- lines as the input, and at least as many **** lines (a
\* heading without content becomes one more).
C5_SeparatorsKept ==
    pc = "done" =>
        LET inl == SplitLines(release.str)
            out == SplitLines(body.str)
        IN  /\ CountLines(out, Rule) = CountLines(inl, Rule)
            /\ CountLines(out, Stars) >= CountLines(inl, Stars)

\* a body of a rule and an empty heading has been cleaned: the rule is
\* there and the heading has become a line of four asterisks
C5_Witness ==
    /\ pc = "done"
    /\ release = Str(Rule \o <<"\n", "#">>)
    /\ body = Str(Rule \o <<"\n">> \o Stars)

\* C6 as stated: when the body names a contributors section, what
\* clean_release_body returns has neither the section title nor what
\* followed it. (That a body without such a title is returned unchanged is
\* the part of the claim the amended statement keeps, up to the strip.)
C6_SectionStripped ==
    (pc = "links" /\ Contains(Lower(release.str), Lower(NewContributors))) =>
        ~Contains(Lower(body.str), Lower(NewContributors))

\* C6 as amended: the one pattern clean_release_body knows is "full
\* changelog", in any case, and it removes the lines that contain it and
\* nothing behind them: no line of its result names the changelog, every
\* other line of the input is still there (a contributors section title
\* included), and a body that does not name the changelog is returned with
\* its outer whitespace stripped and its line breaks made "\n".
C6_OnlyChangelogLinesRemoved ==
    pc = "links" =>
        LET inl == SplitLines(release.str)
            cl  == SplitLines(body.str)
        IN  /\ \A line \in Range(cl) : ~NamesChangelog(line)
            /\ \A line \in Range(inl) :
                   ~NamesChangelog(line) => Contains(body.str, Strip(line))
            /\ ~NamesChangelog(release.str) =>
                   body.str = Strip(NormalisedBreaks(release.str))

\* a section title and the line behind it have passed clean_release_body,
\* which took the changelog line between them
C6_Witness ==
    /\ pc = "links"
    /\ release = Str(NewContributors \o <<"\n">>
                     \o <<"F", "u", "l", "l", " ", "C", "h", "a", "n", "g", "e", "l", "o", "g">>
                     \o <<"\n", "a">>)
    /\ body = Str(NewContributors \o <<"\n", "a">>)

(***************************************************************************)
(* Claims about bot lines (specification SpecBots).                        *)
(***************************************************************************)
Dependabot == <<"d", "e", "p", "e", "n", "d", "a", "b", "o", "t">>

\* the bot registry of the design; the code has none
BotRegistry == {Dependabot}

\* lines that name a bot at their start or in their middle, and a name that
\* only begins like a bot's
BotFrags ==
    {<<"b", "y", " ">>, <<"@">>, Dependabot, <<"-", "b", "o", "t">>,
     <<" ", "i", "n", " ">>, <<"#">>, <<"\n">>}

InitBots == InitWith(BotFrags)

SpecBots == InitBots /\ [][Next]_vars

\* the line is followed by nothing that continues a name
NameEndsAt(l, i) == i > Len(l) \/ l[i] \notin TokenChars

\* the bot rule of the design: the lower-cased line starts with by @bot,
\* by bot or bot in, for a bot that is exactly in the registry
BotAttributed(line) ==
    LET l == Lower(line)
    IN  \E bot \in BotRegistry :
            \/ /\ StartsAt(l, 1, <<"b", "y", " ", "@">> \o bot)
               /\ NameEndsAt(l, 5 + Len(bot))
            \/ /\ StartsAt(l, 1, <<"b", "y", " ">> \o bot)
               /\ NameEndsAt(l, 4 + Len(bot))
            \/ StartsAt(l, 1, bot \o <<" ", "i", "n">>)

\* what a line of the input can be in the cleaned output: its image, or the
\* image of what the strip of clean_release_body leaves of it at either end
\* of the text
ImagesOf(line) ==
    {LineImage(l) : l \in {line, LStrip(line), RStrip(line), Strip(line)}}

\* C8 as stated: a line attributed to a registered bot is removed (and a
\* line that names a bot elsewhere, or a name that is not exactly a bot's, is
\* not removed by this rule).
C8_BotLinesRemoved ==
    pc = "done" =>
        \A line \in Range(SplitLines(release.str)) :
            BotAttributed(line) =>
                ImagesOf(line) \cap Range(SplitLines(body.str)) = {}

\* C8 as amended: no line is removed for naming a bot. A line attributed to
\* a bot is kept like a line that names a bot in its middle or a name that
\* is not exactly a bot's: each is a line of the cleaned output, its
\* mentions linked.
C8_BotLinesKept ==
    pc = "done" =>
        \A line \in Range(SplitLines(release.str)) :
            (~NamesChangelog(line) /\ Contains(Lower(line), Dependabot)) =>
                ImagesOf(line) \cap Range(SplitLines(body.str)) # {}

\* a line by the bot has been cleaned: it is there, with its mention linked
C8_Witness ==
    /\ pc = "done"
    /\ release = Str(<<"b", "y", " ", "@">> \o Dependabot \o <<" ", "i", "n", " ">>)
    /\ body = Str(<<"b", "y", " ">> \o LinkedMention(Dependabot) \o <<" ", "i", "n">>)

====
